---- MODULE Spec2Model ----
(***************************************************************************)
(* Loan / EMI amortization tracker of the bill-reminder backend.           *)
(*                                                                         *)
(* The state is the content of the two tables the loan routes work on      *)
(* (Bill, LoanDetails) and the last HTTP response.  Each route handler of   *)
(* backend/loans.py is one atomic action: it runs inside one request and   *)
(* one db.session, so what it commits (or rolls back) is what the next     *)
(* request sees.                                                           *)
(*                                                                         *)
(* Money is db.Float in the source; the model uses whole currency units.   *)
(* Nullable columns hold None == << >> or Some(x) == << x >>.  Timestamps  *)
(* are kept at calendar-day precision and every request of a run falls on  *)
(* the day Today.  interest_rate and notes of LoanDetails are informational*)
(* columns no computation reads; they are left out.                        *)
(*                                                                         *)
(* Spec runs the requests one after another.  SpecC runs payment requests  *)
(* for one loan concurrently: each request has its own db.session, whose   *)
(* load, mutate and commit steps interleave with those of the others.      *)
(***************************************************************************)
EXTENDS Integers, Sequences, FiniteSets, TLC

VARIABLES bills, loans, resp, sessions

vars == <<bills, loans, resp, sessions>>

----------------------------------------------------------------------------
(* Bounds *)

\* at most this many bills get loan details
MaxLoans == 1

\* this many payment requests for one loan run concurrently
MaxReqs == 2

\* the longest loan of the on-schedule runs, in installments
MaxInstallments == 12

----------------------------------------------------------------------------
(* Values *)

None == << >>
Some(x) == << x >>

Users == {"u1", "u2"}

\* JSON values of a request body: a key that is absent, a number, a string
\* holding a number, or a string that holds none ("abc")
Absent == [k |-> "absent", v |-> 0]
Num(n) == [k |-> "num", v |-> n]
Str(n) == [k |-> "str", v |-> n]
NotANumber == [k |-> "nan", v |-> 0]

\* Python truthiness of data[field] / data.get(field)
Truthy(x) ==
    CASE x.k = "absent" -> FALSE
      [] x.k = "num"    -> x.v # 0
      [] x.k = "str"    -> TRUE
      [] x.k = "nan"    -> TRUE

----------------------------------------------------------------------------
(* Calendar: dateutil.relativedelta(months = n) *)

IsLeap(y) == (y % 4 = 0 /\ y % 100 # 0) \/ y % 400 = 0

DaysInMonth(y, m) ==
    IF m = 2 THEN (IF IsLeap(y) THEN 29 ELSE 28)
    ELSE IF m \in {4, 6, 9, 11} THEN 30 ELSE 31

Date(y, m, d) == [y |-> y, m |-> m, d |-> d]

\* date + relativedelta(months = n): roll the month and the year, then clamp
\* the day to the length of the target month
AddMonths(dt, n) ==
    LET mm  == dt.m - 1 + n
        yy  == dt.y + (mm \div 12)
        mo  == (mm % 12) + 1
        dim == DaysInMonth(yy, mo)
    IN  Date(yy, mo, IF dt.d > dim THEN dim ELSE dt.d)

\* the calendar day of datetime.now(): every request of a run falls on it
Today == Date(2025, 1, 31)

----------------------------------------------------------------------------
(* models.py: Bill and LoanDetails rows *)

\* Bill(...): a row of the bill table; notes is None or the pair <<i, N>> of
\* the annotation "EMI #i of N"
Bill(user_id, name, amount, due_date, category, frequency, notes, flags) ==
    [ user_id   |-> user_id,
      name      |-> name,
      amount    |-> amount,
      due_date  |-> due_date,
      category  |-> category,
      frequency |-> frequency,
      is_paid   |-> FALSE,
      notes     |-> notes,
      flags     |-> flags ]

\* the notification flags a bill carries: enable_whatsapp, enable_call,
\* enable_sms, enable_local_notification
Flags(w, c, s, n) == [ whatsapp |-> w, call |-> c, sms |-> s, local |-> n ]

\* the bills the users entered before the first loan request
InitBills ==
    << Bill("u1", "car loan", 5, Date(2025, 1, 31), "loan", "once", None,
            Flags(TRUE, FALSE, FALSE, TRUE)),
       Bill("u2", "car loan", 7, Date(2024, 12, 15), "emi", "weekly", None,
            Flags(TRUE, TRUE, FALSE, FALSE)) >>

\* the bills present before any loan request: the routes that enter bills are
\* outside backend/loans.py
NumInitBills == Len(InitBills)

\* a bill id is the row's position in the table; each bill with loan details
\* gets at most one successor, and one id more stands for "no such bill"
BillIds == 1 .. (NumInitBills + MaxLoans + 1)

\* calculate_loan_details as it would be if the recomputation also re-derived
\* is_active from the balance
calculate_loan_details_rederives_active(l) ==
    IF l.total_amount # 0 /\ l.monthly_payment # 0
    THEN [ l EXCEPT
             !.amount_remaining = Some(l.total_amount - l.total_paid),
             !.expected_completion_date =
                 IF @ = None /\ l.total_installments # 0
                 THEN Some(AddMonths(l.loan_start_date, l.total_installments))
                 ELSE @,
             !.next_payment_date =
                 Some(AddMonths(l.loan_start_date, l.installments_paid + 1)),
             !.is_active = (l.total_amount - l.total_paid > 0) ]
    ELSE l

\* calculate_loan_details as it would be if it advanced next_payment_date
\* from the date stored before
calculate_loan_details_advances_date(l) ==
    IF l.total_amount # 0 /\ l.monthly_payment # 0
    THEN [ l EXCEPT
             !.amount_remaining = Some(l.total_amount - l.total_paid),
             !.expected_completion_date =
                 IF @ = None /\ l.total_installments # 0
                 THEN Some(AddMonths(l.loan_start_date, l.total_installments))
                 ELSE @,
             !.next_payment_date =
                 Some(AddMonths(IF @ = None THEN l.loan_start_date ELSE @[1],
                                l.installments_paid + 1)) ]
    ELSE l

\* LoanDetails.calculate_loan_details
calculate_loan_details(l) ==
    IF l.total_amount # 0 /\ l.monthly_payment # 0
    THEN [ l EXCEPT
             !.amount_remaining = Some(l.total_amount - l.total_paid),
             !.expected_completion_date =
                 IF @ = None /\ l.total_installments # 0
                 THEN Some(AddMonths(l.loan_start_date, l.total_installments))
                 ELSE @,
             !.next_payment_date =
                 Some(AddMonths(l.loan_start_date, l.installments_paid + 1)) ]
    ELSE l

\* LoanDetails(**kwargs): the column defaults, then __init__ calls
\* calculate_loan_details
LoanDetails(bill_id, total_amount, monthly_payment, total_installments, installments_paid, total_paid, loan_start_date) ==
    calculate_loan_details(
        [ bill_id                  |-> bill_id,
          total_amount             |-> total_amount,
          monthly_payment          |-> monthly_payment,
          total_installments       |-> total_installments,
          installments_paid        |-> installments_paid,
          total_paid               |-> total_paid,
          amount_remaining         |-> None,
          loan_start_date          |-> loan_start_date,
          expected_completion_date |-> None,
          last_payment_date        |-> None,
          next_payment_date        |-> None,
          payment_history          |-> None,
          is_active                |-> TRUE ])

\* the payment amount as it would be with "amount or 0"
payment_amount_defaults_to_zero(l, amount) ==
    IF Truthy(amount) THEN amount.v ELSE 0

\* payment_amount = amount or self.monthly_payment
payment_amount(l, amount) ==
    IF Truthy(amount) THEN amount.v ELSE l.monthly_payment

\* the completion test as it would be without the balance clause
is_completed_by_count_only(l) ==
    l.installments_paid >= l.total_installments

\* the completion test of make_payment
is_completed(l) ==
    \/ l.installments_paid >= l.total_installments
    \/ l.amount_remaining[1] <= 0

\* make_payment as it would be without the increment of installments_paid
make_payment_without_count(l, a) ==
    LET l1 == [ l EXCEPT
                  !.total_paid        = @ + a,
                  !.amount_remaining  = Some(l.total_amount - (l.total_paid + a)),
                  !.last_payment_date = Some(Today) ]
        payment_record ==
                [ installment_no |-> l1.installments_paid,
                  amount         |-> a,
                  date           |-> Today,
                  remaining      |-> l1.amount_remaining[1] ]
        history == IF l.payment_history # None THEN l.payment_history[1] ELSE << >>
        l2 == [ l1 EXCEPT
                  !.payment_history   = Some(Append(history, payment_record)),
                  !.next_payment_date =
                      Some(AddMonths(l.loan_start_date, l1.installments_paid + 1)) ]
    IN  IF is_completed(l2) THEN [ l2 EXCEPT !.is_active = FALSE ] ELSE l2

\* make_payment as it would be if it stored the new record alone instead of
\* appending it to the parsed history
make_payment_overwrites_history(l, a) ==
    LET l1 == [ l EXCEPT
                  !.installments_paid = @ + 1,
                  !.total_paid        = @ + a,
                  !.amount_remaining  = Some(l.total_amount - (l.total_paid + a)),
                  !.last_payment_date = Some(Today) ]
        payment_record ==
                [ installment_no |-> l1.installments_paid,
                  amount         |-> a,
                  date           |-> Today,
                  remaining      |-> l1.amount_remaining[1] ]
        l2 == [ l1 EXCEPT
                  !.payment_history   = Some(<< payment_record >>),
                  !.next_payment_date =
                      Some(AddMonths(l.loan_start_date, l1.installments_paid + 1)) ]
    IN  IF is_completed(l2) THEN [ l2 EXCEPT !.is_active = FALSE ] ELSE l2

\* LoanDetails.make_payment with a numeric payment amount a: the loan after
\* the payment
make_payment(l, a) ==
    LET l1 == [ l EXCEPT
                  !.installments_paid = @ + 1,
                  !.total_paid        = @ + a,
                  !.amount_remaining  = Some(l.total_amount - (l.total_paid + a)),
                  !.last_payment_date = Some(Today) ]
        payment_record ==
                [ installment_no |-> l1.installments_paid,
                  amount         |-> a,
                  date           |-> Today,
                  remaining      |-> l1.amount_remaining[1] ]
        history == IF l.payment_history # None THEN l.payment_history[1] ELSE << >>
        l2 == [ l1 EXCEPT
                  !.payment_history   = Some(Append(history, payment_record)),
                  !.next_payment_date =
                      Some(AddMonths(l.loan_start_date, l1.installments_paid + 1)) ]
    IN  IF is_completed(l2) THEN [ l2 EXCEPT !.is_active = FALSE ] ELSE l2

\* the dictionary make_payment returns, read off the loan after the payment
payment_result(l, a) ==
    [ installment_no   |-> l.installments_paid,
      amount_paid      |-> a,
      amount_remaining |-> l.amount_remaining[1],
      is_completed     |-> ~l.is_active ]

----------------------------------------------------------------------------
(* Request inputs *)

\* a well-formed body of POST /bills/<bill_id>/loan
BaseCreate ==
    [ total_amount       |-> Num(3),
      monthly_payment    |-> Num(1),
      total_installments |-> Num(3),
      installments_paid  |-> Absent,
      total_paid         |-> Absent,
      loan_start_date    |-> None ]

\* request bodies of POST /bills/<bill_id>/loan: the well-formed body and
\* the bodies that differ from it in one key
CreateData ==
    {BaseCreate}
    \cup { [BaseCreate EXCEPT !.total_amount = x] :
             x \in {Absent, Num(0), Num(-1), Str(0), NotANumber} }
    \cup { [BaseCreate EXCEPT !.monthly_payment = x] : x \in {Absent, Num(0)} }
    \cup { [BaseCreate EXCEPT !.total_installments = x] :
             x \in {Absent, Num(0), Str(0)} }
    \cup { [BaseCreate EXCEPT !.installments_paid = x] : x \in {Num(3)} }
    \cup { [BaseCreate EXCEPT !.total_paid = x] : x \in {Num(3)} }
    \cup { [BaseCreate EXCEPT !.loan_start_date = x] :
             x \in {Some(Date(2024, 11, 30))} }

\* the "amount" key of POST /bills/<bill_id>/loan/payment
PaymentAmounts == {Absent, Num(0), Num(3), Num(-1), Str(1)}

\* request bodies of PUT /bills/<bill_id>/loan
UpdateData ==
    [ monthly_payment : {Absent, Num(0), Num(2)},
      interest_rate   : {Absent, NotANumber} ]

\* the bills of the runs with several loans: a second bill of u1 beside
\* the two of InitBills
ViewBills ==
    Append(InitBills,
           Bill("u1", "phone", 9, Date(2025, 2, 10), "emi", "yearly", None,
                Flags(FALSE, FALSE, TRUE, TRUE)))
NumViewBills == Len(ViewBills)
ViewBillIds == 1 .. NumViewBills

\* the create bodies and payment amounts of those runs
ViewBodies ==
    { BaseCreate,
      [BaseCreate EXCEPT !.total_installments = Str(0)],
      [BaseCreate EXCEPT !.total_amount = Str(0)] }
ViewAmounts == {Absent, Num(3)}

----------------------------------------------------------------------------
(* loans.py: queries and conversions *)

\* the ownership query as it would be without the user_id filter
find_bill_any_user(user_id, bill_id) ==
    IF bill_id \in 1 .. Len(bills) THEN bill_id ELSE 0

\* Bill.query.filter_by(id=bill_id, user_id=user_id).first(): the bill's id,
\* or 0 for no row
find_bill(user_id, bill_id) ==
    IF bill_id \in 1 .. Len(bills) /\ bills[bill_id].user_id = user_id
    THEN bill_id ELSE 0

\* LoanDetails.query.filter_by(bill_id=bill_id).first(): the loan's id, or 0
find_loan(bill_id) ==
    LET hits == { i \in 1 .. Len(loans) : loans[i].bill_id = bill_id }
    IN  IF hits = {} THEN 0 ELSE CHOOSE i \in hits : \A j \in hits : i <= j

\* the query for next month's bill as it would be if it never found a row
find_next_bill_never(user_id, name, due_date) == 0

\* Bill.query.filter_by(user_id, name, due_date).first(): the bill's id, or 0
find_next_bill(user_id, name, due_date) ==
    LET hits == { i \in 1 .. Len(bills) :
                    /\ bills[i].user_id = user_id
                    /\ bills[i].name = name
                    /\ bills[i].due_date = due_date }
    IN  IF hits = {} THEN 0 ELSE CHOOSE i \in hits : \A j \in hits : i <= j

\* float(x) / int(x) of a JSON number or of a string holding a number
ToNumber(x) == x.v

\* float(x) / int(x) raises ValueError
ValueError(x) == x.k = "nan"

\* total_paid += x raises TypeError: x is a string that "amount or ..." kept
TypeError(x) == Truthy(x) /\ x.k \in {"str", "nan"}

\* the except branch as it would be if the session's changes reached the
\* database
rollback_keeps_changes(persisted, dirty) == dirty

\* except Exception: db.session.rollback(): the rows as persisted replace
\* the rows the session has changed in memory
rollback(persisted, dirty) == persisted

\* data.get(field, default) then float() / int()
GetNumber(x, default) == IF x.k = "absent" THEN default ELSE ToNumber(x)

\* missing = [field for field in required if field not in data or not data[field]]
missing(data) ==
    { f \in {"total_amount", "monthly_payment", "total_installments"} :
        data[f].k = "absent" \/ ~Truthy(data[f]) }

\* the existing-loan test as it would be if the route never rejected
has_existing_loan_never(bill_id) == FALSE

\* if existing_loan: (create_loan_details)
has_existing_loan(bill_id) == find_loan(bill_id) # 0

\* the completed-loan test as it would be if the route never rejected
already_completed_never(l) == FALSE

\* if not loan.is_active: (record_loan_payment)
already_completed(l) == ~l.is_active

\* the test for next month's bill as it would be without "loan.is_active"
needs_next_bill_any_loan(loan, bill) == bill.frequency = "monthly"

\* if loan.is_active and bill.frequency == 'monthly': (record_loan_payment)
needs_next_bill(loan, bill) == loan.is_active /\ bill.frequency = "monthly"

\* round(n / d * 100, 2) for d > 0, in hundredths of a percent: the nearest
\* hundredth, a tie going to the even one
Round2(n, d) ==
    LET q == (n * 10000) \div d
        r == (n * 10000) % d
    IN  IF 2 * r < d THEN q
        ELSE IF 2 * r > d THEN q + 1
        ELSE IF q % 2 = 0 THEN q ELSE q + 1

\* round((installments_paid / total_installments) * 100, 2)
\*     if loan.total_installments > 0 else 0
progress_percentage(l) ==
    IF l.total_installments > 0
    THEN Round2(l.installments_paid, l.total_installments)
    ELSE 0

\* the body of GET /bills/<bill_id>/loan
loan_details(l) ==
    [ bill_id                  |-> l.bill_id,
      total_amount             |-> l.total_amount,
      monthly_payment          |-> l.monthly_payment,
      total_installments       |-> l.total_installments,
      installments_paid        |-> l.installments_paid,
      installments_remaining   |-> l.total_installments - l.installments_paid,
      total_paid               |-> l.total_paid,
      amount_remaining         |-> l.amount_remaining,
      loan_start_date          |-> l.loan_start_date,
      expected_completion_date |-> l.expected_completion_date,
      next_payment_date        |-> l.next_payment_date,
      last_payment_date        |-> l.last_payment_date,
      payment_history          |-> IF l.payment_history # None
                                   THEN l.payment_history[1] ELSE << >>,
      is_active                |-> l.is_active,
      progress_percentage      |-> progress_percentage(l) ]

\* next month's bill as it would be if its note carried the number of the
\* installment just paid
next_bill_numbers_paid_installment(user_id, bill, loan) ==
    Bill(user_id, bill.name, loan.monthly_payment, AddMonths(bill.due_date, 1),
         bill.category, bill.frequency,
         Some(<<loan.installments_paid, loan.total_installments>>), bill.flags)

\* next_bill = Bill(...): next month's bill (record_loan_payment)
next_bill(user_id, bill, loan) ==
    Bill(user_id, bill.name, loan.monthly_payment, AddMonths(bill.due_date, 1),
         bill.category, bill.frequency,
         Some(<<loan.installments_paid + 1, loan.total_installments>>), bill.flags)

\* jsonify(...), status: the response of a route
Response(status, message, result) ==
    [ status |-> status, message |-> message, result |-> result ]

----------------------------------------------------------------------------
(* loans.py: route handlers *)

\* loan = LoanDetails(...); loan.calculate_loan_details(): the loan a create
\* request builds from a body that passed the validation
new_loan(bill_id, data) ==
    LET loan_start_date ==
            IF data.loan_start_date # None THEN data.loan_start_date[1] ELSE Today
    IN  calculate_loan_details(
            LoanDetails(bill_id,
                        ToNumber(data.total_amount),
                        ToNumber(data.monthly_payment),
                        ToNumber(data.total_installments),
                        GetNumber(data.installments_paid, 0),
                        GetNumber(data.total_paid, 0),
                        loan_start_date))

\* POST /bills/<bill_id>/loan
create_loan_details(user_id, bill_id, data) ==
    IF find_bill(user_id, bill_id) = 0
    THEN /\ resp' = Response(404, "Bill not found", None)
         /\ UNCHANGED <<bills, loans>>
    ELSE IF has_existing_loan(bill_id)
    THEN /\ resp' = Response(400, "Loan details already exist for this bill", None)
         /\ UNCHANGED <<bills, loans>>
    ELSE IF missing(data) # {}
    THEN /\ resp' = Response(400, "Missing required fields", None)
         /\ UNCHANGED <<bills, loans>>
    ELSE IF \E f \in {"total_amount", "monthly_payment", "total_installments",
                      "installments_paid", "total_paid"} : ValueError(data[f])
    THEN \* float() / int() raises before the loan is built
         /\ resp' = Response(500, "Failed to create loan details", None)
         /\ bills' = rollback(bills, bills)
         /\ loans' = rollback(loans, loans)
    ELSE LET loan == new_loan(bill_id, data)
         IN  /\ Cardinality({ loans[i].bill_id : i \in 1 .. Len(loans) }
                             \cup {bill_id}) <= MaxLoans
             /\ bills' = [ bills EXCEPT ![bill_id].amount    = loan.monthly_payment,
                                        ![bill_id].frequency = "monthly" ]
             /\ loans' = Append(loans, loan)
             /\ resp' = Response(201, "Loan details created", Some(loan))

\* GET /bills/<bill_id>/loan
get_loan_details(user_id, bill_id) ==
    /\ UNCHANGED <<bills, loans>>
    /\ IF find_bill(user_id, bill_id) = 0
       THEN resp' = Response(404, "Bill not found", None)
       ELSE IF find_loan(bill_id) = 0
       THEN resp' = Response(404, "No loan details found for this bill", None)
       ELSE resp' = Response(200, "Loan details",
                             Some(loan_details(loans[find_loan(bill_id)])))

\* POST /bills/<bill_id>/loan/payment
record_loan_payment(user_id, bill_id, amount) ==
    IF find_bill(user_id, bill_id) = 0
    THEN /\ resp' = Response(404, "Bill not found", None)
         /\ UNCHANGED <<bills, loans>>
    ELSE IF find_loan(bill_id) = 0
    THEN /\ resp' = Response(404, "No loan details found for this bill", None)
         /\ UNCHANGED <<bills, loans>>
    ELSE IF already_completed(loans[find_loan(bill_id)])
    THEN /\ resp' = Response(400, "This loan is already completed", None)
         /\ UNCHANGED <<bills, loans>>
    ELSE IF TypeError(amount)
    THEN \* installments_paid += 1 is done when total_paid += "..." raises
         LET id == find_loan(bill_id)
         IN  /\ resp' = Response(500, "Failed to record payment", None)
             /\ bills' = rollback(bills, bills)
             /\ loans' = rollback(loans, [ loans EXCEPT
                                             ![id].installments_paid = @ + 1 ])
    ELSE LET id   == find_loan(bill_id)
             bill == bills[bill_id]
             a    == payment_amount(loans[id], amount)
             loan == make_payment(loans[id], a)
             paid == [ bills EXCEPT ![bill_id].is_paid = TRUE ]
             next_due_date == AddMonths(bill.due_date, 1)
         IN  /\ loans' = [ loans EXCEPT ![id] = loan ]
             /\ bills' =
                  IF /\ needs_next_bill(loan, bill)
                     /\ find_next_bill(user_id, bill.name, next_due_date) = 0
                  THEN Append(paid, next_bill(user_id, bill, loan))
                  ELSE paid
             /\ resp' = Response(200, "Payment recorded successfully",
                                 Some(payment_result(loan, a)))

\* PUT /bills/<bill_id>/loan as it would be without "bill.amount =
\* loan.monthly_payment"
update_loan_details_keeps_bill_amount(user_id, bill_id, data) ==
    IF find_bill(user_id, bill_id) = 0
    THEN /\ resp' = Response(404, "Bill not found", None)
         /\ UNCHANGED <<bills, loans>>
    ELSE IF find_loan(bill_id) = 0
    THEN /\ resp' = Response(404, "No loan details found for this bill", None)
         /\ UNCHANGED <<bills, loans>>
    ELSE LET id == find_loan(bill_id)
             l1 == IF data.monthly_payment.k # "absent"
                   THEN [ loans[id] EXCEPT
                            !.monthly_payment = ToNumber(data.monthly_payment) ]
                   ELSE loans[id]
         IN  IF ValueError(data.interest_rate)
             THEN /\ resp' = Response(500, "Failed to update loan details", None)
                  /\ bills' = rollback(bills, bills)
                  /\ loans' = rollback(loans, [ loans EXCEPT ![id] = l1 ])
             ELSE /\ loans' = [ loans EXCEPT ![id] = calculate_loan_details(l1) ]
                  /\ bills' = bills
                  /\ resp' = Response(200, "Loan details updated successfully", None)

\* PUT /bills/<bill_id>/loan
update_loan_details(user_id, bill_id, data) ==
    IF find_bill(user_id, bill_id) = 0
    THEN /\ resp' = Response(404, "Bill not found", None)
         /\ UNCHANGED <<bills, loans>>
    ELSE IF find_loan(bill_id) = 0
    THEN /\ resp' = Response(404, "No loan details found for this bill", None)
         /\ UNCHANGED <<bills, loans>>
    ELSE LET id == find_loan(bill_id)
             l1 == IF data.monthly_payment.k # "absent"
                   THEN [ loans[id] EXCEPT
                            !.monthly_payment = ToNumber(data.monthly_payment) ]
                   ELSE loans[id]
             b1 == IF data.monthly_payment.k # "absent"
                   THEN [ bills EXCEPT ![bill_id].amount = l1.monthly_payment ]
                   ELSE bills
         IN  IF ValueError(data.interest_rate)
             THEN \* monthly_payment and bill.amount are set when float() raises
                  /\ resp' = Response(500, "Failed to update loan details", None)
                  /\ bills' = rollback(bills, b1)
                  /\ loans' = rollback(loans, [ loans EXCEPT ![id] = l1 ])
             ELSE /\ loans' = [ loans EXCEPT ![id] = calculate_loan_details(l1) ]
                  /\ bills' = b1
                  /\ resp' = Response(200, "Loan details updated successfully", None)

----------------------------------------------------------------------------
(* Specification *)

Init ==
    /\ bills = InitBills
    /\ loans = << >>
    /\ resp = Response(0, "no request yet", None)
    /\ sessions = << >>

\* The body of a request matters only once the handler reads it: a request
\* the handler answers before request.get_json() is issued with one body.
CreateBodies(u, b) ==
    IF find_bill(u, b) = 0 \/ find_loan(b) # 0 THEN {BaseCreate} ELSE CreateData

PaymentBodies(u, b) ==
    IF find_bill(u, b) = 0 \/ find_loan(b) = 0 \/ ~loans[find_loan(b)].is_active
    THEN {Absent} ELSE PaymentAmounts

UpdateBodies(u, b) ==
    IF find_bill(u, b) = 0 \/ find_loan(b) = 0
    THEN {[monthly_payment |-> Absent, interest_rate |-> Absent]}
    ELSE UpdateData

\* one request at a time: no session stays open between two steps
Next ==
    \/ \E u \in Users, b \in BillIds :
         \E d \in CreateBodies(u, b) :
            create_loan_details(u, b, d) /\ UNCHANGED sessions
    \/ \E u \in Users, b \in BillIds :
         get_loan_details(u, b) /\ UNCHANGED sessions
    \/ \E u \in Users, b \in BillIds :
         \E a \in PaymentBodies(u, b) :
            record_loan_payment(u, b, a) /\ UNCHANGED sessions
    \/ \E u \in Users, b \in BillIds :
         \E d \in UpdateBodies(u, b) :
            update_loan_details(u, b, d) /\ UNCHANGED sessions

Spec == Init /\ [][Next]_vars

\* a client that keeps paying: the payment request with no amount in its body
\* for bill b of user u
pay_installment(u, b) == record_loan_payment(u, b, Absent) /\ UNCHANGED sessions

\* the requests of Spec where every user keeps sending the payment request
\* for each of their bills
SpecF ==
    /\ Spec
    /\ \A u \in Users, b \in BillIds : WF_vars(pay_installment(u, b))

----------------------------------------------------------------------------
(* Concurrent payment requests *)

\* the requests in flight at the same time
Reqs == 1 .. MaxReqs

\* the user and the bill the concurrent requests are for
ConcUser == "u1"
ConcBill == 1

\* the loan the concurrent requests pay: the one POST /bills/1/loan with
\* BaseCreate has created
ConcLoan ==
    calculate_loan_details(
        LoanDetails(ConcBill, ToNumber(BaseCreate.total_amount),
                    ToNumber(BaseCreate.monthly_payment),
                    ToNumber(BaseCreate.total_installments), 0, 0, Today))

\* a request that has not loaded anything yet
NoSession ==
    [ pc |-> "idle", amount |-> Absent, loaded |-> None, loan |-> None,
      next_bill |-> None, status |-> 0, paid |-> 0 ]

\* the UPDATE the unit of work emits for a row: the columns the session has
\* changed since it loaded the row are written, the others keep what the
\* database holds
flush(row, loaded, copy) ==
    [ c \in DOMAIN row |-> IF copy[c] # loaded[c] THEN copy[c] ELSE row[c] ]

\* record_loan_payment up to request.get_json(): the session loads the bill
\* and the loan
load_payment(r, amount) ==
    /\ sessions[r].pc = "idle"
    /\ UNCHANGED <<bills, loans>>
    /\ LET loan == loans[find_loan(ConcBill)]
       IN  IF already_completed(loan)
           THEN /\ resp' = Response(400, "This loan is already completed", None)
                /\ sessions' = [ sessions EXCEPT ![r].pc = "done",
                                                 ![r].status = 400 ]
           ELSE /\ resp' = resp
                /\ sessions' = [ sessions EXCEPT ![r].pc = "loaded",
                                                 ![r].amount = amount,
                                                 ![r].loaded = Some(loan),
                                                 ![r].loan = Some(loan) ]

\* record_loan_payment from make_payment to db.session.add(next_bill): the
\* session changes its copies; the query for next month's bill reads the
\* bills committed so far
mutate_payment(r) ==
    /\ sessions[r].pc = "loaded"
    /\ UNCHANGED <<bills, loans>>
    /\ IF TypeError(sessions[r].amount)
       THEN /\ resp' = Response(500, "Failed to record payment", None)
            /\ sessions' = [ sessions EXCEPT ![r].pc = "done",
                                             ![r].status = 500,
                                             ![r].loan = sessions[r].loaded ]
       ELSE LET bill == bills[ConcBill]
                a    == payment_amount(sessions[r].loan[1], sessions[r].amount)
                loan == make_payment(sessions[r].loan[1], a)
                next_due_date == AddMonths(bill.due_date, 1)
            IN  /\ resp' = resp
                /\ sessions' =
                     [ sessions EXCEPT
                         ![r].pc = "mutated",
                         ![r].loan = Some(loan),
                         ![r].paid = a,
                         ![r].next_bill =
                             IF /\ needs_next_bill(loan, bill)
                                /\ find_next_bill(ConcUser, bill.name, next_due_date) = 0
                             THEN Some(next_bill(ConcUser, bill, loan))
                             ELSE None ]

\* db.session.commit() and the response
commit_payment(r) ==
    /\ sessions[r].pc = "mutated"
    /\ LET id   == find_loan(ConcBill)
           paid == [ bills EXCEPT ![ConcBill].is_paid = TRUE ]
       IN  /\ loans' = [ loans EXCEPT
                           ![id] = flush(loans[id], sessions[r].loaded[1],
                                         sessions[r].loan[1]) ]
           /\ bills' = IF sessions[r].next_bill # None
                       THEN Append(paid, sessions[r].next_bill[1])
                       ELSE paid
           /\ resp' = Response(200, "Payment recorded successfully",
                               Some(payment_result(sessions[r].loan[1],
                                                   sessions[r].paid)))
           /\ sessions' = [ sessions EXCEPT ![r].pc = "done", ![r].status = 200 ]

\* db.session.commit() raises: a database that detects that the loan row was
\* written since the session loaded it refuses the commit; the except branch
\* rolls back.  Which databases do is a matter of the deployment.
commit_conflict(r) ==
    /\ sessions[r].pc = "mutated"
    /\ loans[find_loan(ConcBill)] # sessions[r].loaded[1]
    /\ bills' = rollback(bills, bills)
    /\ loans' = rollback(loans, loans)
    /\ resp' = Response(500, "Failed to record payment", None)
    /\ sessions' = [ sessions EXCEPT ![r].pc = "done", ![r].status = 500,
                                     ![r].loan = sessions[r].loaded ]

\* the database after POST /bills/1/loan, and MaxReqs payment requests about
\* to start
InitC ==
    /\ bills = [ InitBills EXCEPT ![ConcBill].amount = ConcLoan.monthly_payment,
                                  ![ConcBill].frequency = "monthly" ]
    /\ loans = << ConcLoan >>
    /\ resp = Response(201, "Loan details created", Some(ConcLoan))
    /\ sessions = [ r \in Reqs |-> NoSession ]

NextC ==
    \/ \E r \in Reqs : \E a \in PaymentAmounts : load_payment(r, a)
    \/ \E r \in Reqs : mutate_payment(r)
    \/ \E r \in Reqs : commit_payment(r)
    \/ \E r \in Reqs : commit_conflict(r)

SpecC == InitC /\ [][NextC]_vars

----------------------------------------------------------------------------
(* On-schedule runs: a fresh loan paid with the default amount *)

\* the loans of the on-schedule runs: n installments of monthly_payment,
\* total_amount = n * monthly_payment, from a start date
ScheduleInstallments == 1 .. MaxInstallments
SchedulePayments == {1, 100}
ScheduleStarts == { Date(2025, 1, 1), Date(2025, 1, 31), Date(2024, 11, 30) }

\* the loan POST /bills/1/loan creates from total_amount = n * monthly_payment,
\* monthly_payment, total_installments = n and loan_start_date
ScheduleLoan(n, monthly_payment, loan_start_date) ==
    calculate_loan_details(
        LoanDetails(ConcBill, n * monthly_payment, monthly_payment, n, 0, 0,
                    loan_start_date))

\* the database after that request
InitA ==
    \E n \in ScheduleInstallments, mp \in SchedulePayments, d \in ScheduleStarts :
        /\ bills = [ InitBills EXCEPT ![ConcBill].amount = mp,
                                      ![ConcBill].frequency = "monthly" ]
        /\ loans = << ScheduleLoan(n, mp, d) >>
        /\ resp = Response(201, "Loan details created", Some(ScheduleLoan(n, mp, d)))
        /\ sessions = << >>

\* POST /bills/1/loan/payment with no amount
NextA ==
    record_loan_payment(ConcUser, ConcBill, Absent) /\ UNCHANGED sessions

SpecA == InitA /\ [][NextA]_vars

----------------------------------------------------------------------------
(* Summaries and the chat function dispatch *)

\* the ids of the loans of a user's bills, in the order of the join
user_loans(user_id) ==
    SelectSeq([ i \in 1 .. Len(loans) |-> i ],
              LAMBDA i : bills[loans[i].bill_id].user_id = user_id)

\* the ids of s whose loan is active / completed
active_of(s) == SelectSeq(s, LAMBDA i : loans[i].is_active)
completed_of(s) == SelectSeq(s, LAMBDA i : ~loans[i].is_active)

\* total_debt += loan.amount_remaining over the loans of s
RECURSIVE total_debt(_)
total_debt(s) ==
    IF s = << >> THEN 0
    ELSE loans[Head(s)].amount_remaining[1] + total_debt(Tail(s))

\* total_monthly_payment += loan.monthly_payment over the loans of s
RECURSIVE total_monthly_payment(_)
total_monthly_payment(s) ==
    IF s = << >> THEN 0
    ELSE loans[Head(s)].monthly_payment + total_monthly_payment(Tail(s))

\* total_debt += loan.amount_remaining raises TypeError: the column is NULL
debt_raises(s) == \E k \in 1 .. Len(s) : loans[s[k]].amount_remaining = None

\* an exception that reaches the client: str(e)
Raised(error) == Some([ error |-> error ])

\* loan_data of get_loans_summary
loan_data(i) ==
    [ bill_name           |-> bills[loans[i].bill_id].name,
      bill_id             |-> loans[i].bill_id,
      total_amount        |-> loans[i].total_amount,
      monthly_payment     |-> loans[i].monthly_payment,
      installments_paid   |-> loans[i].installments_paid,
      total_installments  |-> loans[i].total_installments,
      amount_remaining    |-> loans[i].amount_remaining,
      progress_percentage |-> progress_percentage(loans[i]),
      next_payment_date   |-> loans[i].next_payment_date ]

\* GET /loans/summary
get_loans_summary(user_id) ==
    /\ UNCHANGED <<bills, loans>>
    /\ LET active    == active_of(user_loans(user_id))
           completed == completed_of(user_loans(user_id))
       IN  IF debt_raises(active)
           THEN \* no try: the framework answers
                resp' = Response(500, "Internal Server Error", Raised("TypeError"))
           ELSE resp' = Response(200, "Loans summary",
                    Some([ active_loans    |-> [ k \in 1 .. Len(active) |->
                                                   loan_data(active[k]) ],
                           completed_loans |-> [ k \in 1 .. Len(completed) |->
                                                   loan_data(completed[k]) ],
                           total_active_loans    |-> Len(active),
                           total_completed_loans |-> Len(completed),
                           total_debt            |-> total_debt(active),
                           total_monthly_payment |-> total_monthly_payment(active) ]))

\* round((installments_paid / total_installments) * 100, 2) of the chat view
\* raises ZeroDivisionError
chat_progress_raises(l) == l.total_installments = 0

\* execute_function_call 'get_loan_summary': the result, or the exception
chat_get_loan_summary(user_id) ==
    LET active == active_of(user_loans(user_id))
    IN  IF \E k \in 1 .. Len(active) :
               /\ chat_progress_raises(loans[active[k]])
               /\ \A j \in 1 .. (k - 1) : loans[active[j]].amount_remaining # None
        THEN Raised("division by zero")
        ELSE IF debt_raises(active)
        THEN Raised("TypeError")
        ELSE Some([ active_loans |->
                      [ k \in 1 .. Len(active) |->
                          LET l == loans[active[k]]
                          IN  [ bill_name           |-> bills[l.bill_id].name,
                                total_amount        |-> l.total_amount,
                                amount_remaining    |-> l.amount_remaining[1],
                                installments_paid   |-> l.installments_paid,
                                total_installments  |-> l.total_installments,
                                progress_percentage |->
                                    Round2(l.installments_paid, l.total_installments) ] ],
                    total_debt  |-> total_debt(active),
                    total_loans |-> Len(active) ])

\* execute_function_call 'get_bill_details'
chat_get_bill_details(user_id, bill_id) ==
    IF find_bill(user_id, bill_id) = 0
    THEN Raised("Bill not found")
    ELSE Some([ bill |-> [ name      |-> bills[bill_id].name,
                           amount    |-> bills[bill_id].amount,
                           due_date  |-> bills[bill_id].due_date,
                           category  |-> bills[bill_id].category,
                           frequency |-> bills[bill_id].frequency,
                           is_paid   |-> bills[bill_id].is_paid,
                           notes     |-> bills[bill_id].notes ],
                loan_details |->
                    IF find_loan(bill_id) = 0 THEN None
                    ELSE LET l == loans[find_loan(bill_id)]
                         IN  Some([ total_amount       |-> l.total_amount,
                                    monthly_payment    |-> l.monthly_payment,
                                    installments_paid  |-> l.installments_paid,
                                    total_installments |-> l.total_installments,
                                    amount_remaining   |-> l.amount_remaining ]) ])

\* the function calls the chat model can ask for: the two dispatched
\* functions that read loans, and a call to record a payment
ChatCalls ==
    { [ name |-> "get_loan_summary", bill_id |-> 0, amount |-> Absent ] }
    \cup { [ name |-> "get_bill_details", bill_id |-> b, amount |-> Absent ] :
             b \in ViewBillIds }
    \cup { [ name |-> "record_loan_payment", bill_id |-> b, amount |-> a ] :
             b \in ViewBillIds, a \in ViewAmounts }

\* execute_function_call: the dictionary returned, or the exception raised
execute_function_call(function_call, user_id) ==
    IF function_call.name = "get_loan_summary"
    THEN chat_get_loan_summary(user_id)
    ELSE IF function_call.name = "get_bill_details"
    THEN chat_get_bill_details(user_id, function_call.bill_id)
    ELSE Raised("Unknown function")

\* POST /chat/message when the model asks for function_call: get_user_context
\* sums amount_remaining over the user's active loans, then the function is
\* executed; an exception is answered 500
send_message(user_id, function_call) ==
    /\ UNCHANGED <<bills, loans>>
    /\ IF debt_raises(active_of(user_loans(user_id)))
       THEN resp' = Response(500, "Failed to process message", Raised("TypeError"))
       ELSE LET function_response == execute_function_call(function_call, user_id)
            IN  IF function_response \in {Raised("division by zero"),
                                          Raised("TypeError")}
                THEN resp' = Response(500, "Failed to process message",
                                      function_response)
                ELSE resp' = Response(200, function_call.name, function_response)

\* the database after the three bills got loan details
InitV ==
    \E d \in [ ViewBillIds -> ViewBodies ] :
        /\ loans = [ b \in ViewBillIds |-> new_loan(b, d[b]) ]
        /\ bills = [ b \in ViewBillIds |->
                       [ ViewBills[b] EXCEPT
                           !.amount    = new_loan(b, d[b]).monthly_payment,
                           !.frequency = "monthly" ] ]
        /\ resp = Response(201, "Loan details created",
                           Some(new_loan(NumViewBills, d[NumViewBills])))
        /\ sessions = << >>

NextV ==
    \/ \E u \in Users, b \in ViewBillIds, a \in ViewAmounts :
         record_loan_payment(u, b, a) /\ UNCHANGED sessions
    \/ \E u \in Users, b \in ViewBillIds :
         get_loan_details(u, b) /\ UNCHANGED sessions
    \/ \E u \in Users : get_loans_summary(u) /\ UNCHANGED sessions
    \/ \E u \in Users, c \in ChatCalls : send_message(u, c) /\ UNCHANGED sessions

SpecV == InitV /\ [][NextV]_vars

----------------------------------------------------------------------------
(* Properties *)

LoanIds == 1 .. Len(loans)

\* the requests for a bill of the requesting user that has loan details
OwnLoanRequests ==
    { r \in Users \X BillIds : find_bill(r[1], r[2]) # 0 /\ find_loan(r[2]) # 0 }

\* the step is a payment request for bill b of user u that the route carried
\* out
PaymentDone(u, b, a) ==
    /\ resp'.message = "Payment recorded successfully"
    /\ record_loan_payment(u, b, a)

\* C1: once a loan's is_active is false it is false in every later state: no
\* create, update or payment request turns it back to true (and the loan row
\* stays in the table).
C1_NoReactivation ==
    [][ \A i \in LoanIds :
          ~loans[i].is_active =>
              /\ i <= Len(loans')
              /\ ~loans'[i].is_active ]_vars

\* C1 witness: an update request was carried out on a completed loan.
C1_Witness ==
    /\ resp.message = "Loan details updated successfully"
    /\ \E i \in LoanIds : ~loans[i].is_active

\* C2: a payment request on a loan whose is_active is false is answered 400
\* "This loan is already completed" and changes no loan and no bill.
C2_CompletedLoanRejectsPayment ==
    [][ (\E i \in LoanIds : ~loans[i].is_active) =>
        \A r \in OwnLoanRequests :
          ~loans[find_loan(r[2])].is_active =>
              \A a \in PaymentAmounts :
                  record_loan_payment(r[1], r[2], a) =>
                      /\ resp'.status = 400
                      /\ resp'.message = "This loan is already completed"
                      /\ loans' = loans
                      /\ bills' = bills ]_vars

\* C2 witness: a payment on a completed loan has just been rejected.
C2_Witness ==
    /\ resp.status = 400
    /\ resp.message = "This loan is already completed"
    /\ \E i \in LoanIds : ~loans[i].is_active /\ loans[i].payment_history # None

\* C3: right after every successful payment the paid loan is inactive exactly
\* when installments_paid >= total_installments or amount_remaining <= 0, and
\* the returned is_completed is that condition.
C3_CompletionEquivalence ==
    [][ resp'.message = "Payment recorded successfully" =>
        \A r \in OwnLoanRequests, a \in PaymentAmounts :
          PaymentDone(r[1], r[2], a) =>
              LET l == loans'[find_loan(r[2])]
                  done == \/ l.installments_paid >= l.total_installments
                          \/ l.amount_remaining[1] <= 0
              IN  /\ ~l.is_active <=> done
                  /\ resp'.result[1].is_completed <=> done ]_vars

\* C3 witness: a payment completed a loan by its balance before the
\* installment count was reached.
C3_Witness ==
    /\ resp.message = "Payment recorded successfully"
    /\ resp.result[1].is_completed
    /\ \E i \in LoanIds :
         /\ ~loans[i].is_active
         /\ loans[i].installments_paid < loans[i].total_installments
         /\ loans[i].amount_remaining[1] <= 0

\* C4: in every reachable state every loan has
\* amount_remaining = total_amount - total_paid.
C4_AmountRemainingDerived ==
    \A i \in LoanIds :
        loans[i].amount_remaining = Some(loans[i].total_amount - loans[i].total_paid)

\* C5: in every reachable state every loan has
\* 0 <= installments_paid <= total_installments.
C5_InstallmentsInRange ==
    \A i \in LoanIds :
        /\ 0 <= loans[i].installments_paid
        /\ loans[i].installments_paid <= loans[i].total_installments

\* C6: installments_paid never decreases; a successful payment adds exactly 1
\* to the paid loan and leaves every other loan's count alone; an update, a
\* read and every request answered with an error leave all counts unchanged.
C6_InstallmentsMonotone ==
    [][ /\ \A i \in LoanIds :
             /\ i <= Len(loans')
             /\ loans'[i].installments_paid >= loans[i].installments_paid
        /\ resp'.message = "Payment recorded successfully" =>
             \A r \in OwnLoanRequests, a \in PaymentAmounts :
               PaymentDone(r[1], r[2], a) =>
                 \A i \in LoanIds :
                     loans'[i].installments_paid =
                         IF i = find_loan(r[2])
                         THEN loans[i].installments_paid + 1
                         ELSE loans[i].installments_paid
        /\ resp'.message # "Payment recorded successfully" =>
             \A i \in LoanIds :
                 loans'[i].installments_paid = loans[i].installments_paid
        /\ resp'.status \notin {200, 201} => loans' = loans ]_vars

\* C6 witness: a payment request failed on a loan that had payments recorded.
C6_Witness ==
    /\ resp.status = 500
    /\ \E i \in LoanIds : loans[i].is_active /\ loans[i].installments_paid >= 1

\* C7: a successful payment adds to total_paid the amount the caller passed,
\* or monthly_payment when the caller passed none, and returns the new
\* installments_paid, the amount added, the new amount_remaining and the
\* negation of is_active.
C7_PaymentAddsGivenAmount ==
    [][ resp'.message = "Payment recorded successfully" =>
        \A r \in OwnLoanRequests, a \in PaymentAmounts :
          PaymentDone(r[1], r[2], a) =>
              LET old   == loans[find_loan(r[2])]
                  new   == loans'[find_loan(r[2])]
                  added == IF a.k = "absent" THEN old.monthly_payment ELSE a.v
              IN  /\ new.total_paid = old.total_paid + added
                  /\ resp'.result[1] =
                       [ installment_no   |-> new.installments_paid,
                         amount_paid      |-> added,
                         amount_remaining |-> new.amount_remaining[1],
                         is_completed     |-> ~new.is_active ] ]_vars

\* C8: a create request whose total_amount, monthly_payment or
\* total_installments is missing, zero or negative is answered 400 and
\* creates no loan and changes no bill.
C8_CreateValidates ==
    [][ \A u \in Users, b \in BillIds :
          (find_bill(u, b) # 0 /\ find_loan(b) = 0) =>
              \A d \in CreateData :
                  ( /\ \E f \in {"total_amount", "monthly_payment",
                                 "total_installments"} :
                           \/ d[f].k = "absent"
                           \/ ~ValueError(d[f]) /\ ToNumber(d[f]) <= 0
                    /\ create_loan_details(u, b, d) )
                  => /\ resp'.status = 400
                     /\ loans' = loans
                     /\ bills' = bills ]_vars

\* the bills the payment flow created
GeneratedBills == (NumInitBills + 1) .. Len(bills)

\* every bill has at most one loan and every loan belongs to a bill
OneLoanPerBill ==
    /\ \A i, j \in LoanIds : loans[i].bill_id = loans[j].bill_id => i = j
    /\ \A i \in LoanIds : loans[i].bill_id \in 1 .. Len(bills)

\* C9: every bill has at most one loan and every loan belongs to one existing
\* bill; a create request for a bill that has a loan is answered 400 "Loan
\* details already exist for this bill" and changes no loan and no bill.
C9_OneLoanPerBill ==
    /\ []OneLoanPerBill
    /\ [][ loans # << >> =>
           \A u \in Users, b \in BillIds :
               (find_bill(u, b) # 0 /\ find_loan(b) # 0) =>
                   \A d \in CreateData :
                       create_loan_details(u, b, d) =>
                           /\ resp'.status = 400
                           /\ resp'.message = "Loan details already exist for this bill"
                           /\ loans' = loans
                           /\ bills' = bills ]_vars

\* C9 witness: a second create request for a bill has just been rejected.
C9_Witness ==
    /\ resp.status = 400
    /\ resp.message = "Loan details already exist for this bill"
    /\ loans # << >>

\* C10: the payment flow never leaves two bills it created with the same
\* user, name and due date, and however often a bill is paid it has one
\* successor: one created bill carries the paid bill's user and name and the
\* due date one month after the paid bill's.
C10_OneSuccessorBill ==
    /\ \A i, j \in GeneratedBills :
         ( /\ bills[i].user_id = bills[j].user_id
           /\ bills[i].name = bills[j].name
           /\ bills[i].due_date = bills[j].due_date ) => i = j
    /\ \A k \in LoanIds :
         LET b == bills[loans[k].bill_id]
         IN  Cardinality({ i \in GeneratedBills :
                             /\ bills[i].user_id = b.user_id
                             /\ bills[i].name = b.name
                             /\ bills[i].due_date = AddMonths(b.due_date, 1) }) <= 1

\* C10 witness: a bill was paid twice, the loan stayed active both times,
\* and there is one successor bill.
C10_Witness ==
    \E k \in LoanIds :
        /\ loans[k].is_active
        /\ loans[k].payment_history # None
        /\ Len(loans[k].payment_history[1]) >= 2
        /\ Cardinality({ i \in GeneratedBills :
                           /\ bills[i].user_id = bills[loans[k].bill_id].user_id
                           /\ bills[i].name = bills[loans[k].bill_id].name }) = 1

\* C11: a successful payment marks the paid bill is_paid and changes no other
\* field of any existing bill; it creates a bill only when the loan is still
\* active after the payment and the paid bill's frequency is "monthly" (a
\* payment that completes the loan creates none); no other request creates a
\* bill.
C11_SuccessorOnlyWhenActiveMonthly ==
    [][ /\ resp'.message = "Payment recorded successfully" =>
             \A r \in OwnLoanRequests, a \in PaymentAmounts :
               PaymentDone(r[1], r[2], a) =>
                   LET l == loans'[find_loan(r[2])]
                   IN  /\ Len(bills') \in {Len(bills), Len(bills) + 1}
                       /\ SubSeq(bills', 1, Len(bills)) =
                              [ bills EXCEPT ![r[2]].is_paid = TRUE ]
                       /\ Len(bills') > Len(bills) =>
                              /\ l.is_active
                              /\ bills[r[2]].frequency = "monthly"
        /\ resp'.message # "Payment recorded successfully" =>
             Len(bills') = Len(bills) ]_vars

\* C11 witness: a payment has completed a loan; its bill is marked paid and
\* no bill was created.
C11_Witness ==
    /\ resp.message = "Payment recorded successfully"
    /\ resp.result[1].is_completed
    /\ GeneratedBills = {}
    /\ \E k \in LoanIds : ~loans[k].is_active /\ bills[loans[k].bill_id].is_paid

\* the payment records of a loan, oldest first
History(l) == IF l.payment_history = None THEN << >> ELSE l.payment_history[1]

\* the bills the payment flow created for the bill of loans[k]
Successors(k) ==
    { i \in GeneratedBills :
        /\ bills[i].user_id = bills[loans[k].bill_id].user_id
        /\ bills[i].name = bills[loans[k].bill_id].name }

\* C12: after k successful payments through the owning bill that left the
\* loan active there are k successor bills, due 1 .. k months after the owning
\* bill's due date.
C12_SuccessorPerPayment ==
    \A k \in LoanIds :
        LET l == loans[k]
            n == IF l.is_active THEN Len(History(l)) ELSE Len(History(l)) - 1
        IN  /\ Cardinality(Successors(k)) = n
            /\ { bills[i].due_date : i \in Successors(k) } =
                   { AddMonths(bills[l.bill_id].due_date, j) : j \in 1 .. n }

\* C13: the payment history is append-only and ordered: a successful payment
\* keeps the records of the paid loan and appends one record whose
\* installment_no is the new installments_paid, whose amount is the amount
\* added to total_paid (the returned amount_paid), whose date is the new
\* last_payment_date and whose remaining is the new amount_remaining; it
\* leaves every other loan's history alone; no other request changes any
\* history; and installment_no grows by 1 from each record to the next.
C13_HistoryAppendOnly ==
    /\ [](\A i \in LoanIds :
            \A j \in 1 .. (Len(History(loans[i])) - 1) :
                History(loans[i])[j + 1].installment_no =
                    History(loans[i])[j].installment_no + 1)
    /\ [][ /\ resp'.message = "Payment recorded successfully" =>
                \A r \in OwnLoanRequests, a \in PaymentAmounts :
                  PaymentDone(r[1], r[2], a) =>
                    \A i \in LoanIds :
                      IF i = find_loan(r[2])
                      THEN History(loans'[i]) =
                             Append(History(loans[i]),
                                    [ installment_no |-> loans'[i].installments_paid,
                                      amount         |-> loans'[i].total_paid
                                                           - loans[i].total_paid,
                                      date           |-> loans'[i].last_payment_date[1],
                                      remaining      |-> loans'[i].amount_remaining[1] ])
                           /\ resp'.result[1].amount_paid =
                                  loans'[i].total_paid - loans[i].total_paid
                      ELSE loans'[i].payment_history = loans[i].payment_history
           /\ resp'.message # "Payment recorded successfully" =>
                \A i \in LoanIds :
                    /\ i <= Len(loans')
                    /\ loans'[i].payment_history = loans[i].payment_history ]_vars

\* C13 witness: a loan has two payment records of different amounts, and the
\* last request was an update, which left them in place.
C13_Witness ==
    /\ resp.message = "Loan details updated successfully"
    /\ \E i \in LoanIds :
         /\ Len(History(loans[i])) >= 2
         /\ History(loans[i])[1].amount # History(loans[i])[2].amount

\* C14: in every reachable state every loan has
\* next_payment_date = loan_start_date + (installments_paid + 1) months.
C14_NextPaymentDateDerived ==
    \A i \in LoanIds :
        loans[i].next_payment_date =
            Some(AddMonths(loans[i].loan_start_date, loans[i].installments_paid + 1))

\* C15: a create request that is carried out sets expected_completion_date to
\* loan_start_date + total_installments months, and no later request changes
\* a loan's expected_completion_date or loan_start_date.
C15_CompletionDateFixed ==
    [][ /\ resp'.status = 201 =>
             LET l == loans'[Len(loans')]
             IN  l.expected_completion_date =
                     Some(AddMonths(l.loan_start_date, l.total_installments))
        /\ \A i \in LoanIds :
             /\ i <= Len(loans')
             /\ loans'[i].expected_completion_date = loans[i].expected_completion_date
             /\ loans'[i].loan_start_date = loans[i].loan_start_date ]_vars

\* C16: in every reachable state the bill of every loan has the loan's
\* monthly_payment as its amount and "monthly" as its frequency.
C16_BillViewsLoan ==
    \A i \in LoanIds :
        /\ bills[loans[i].bill_id].amount = loans[i].monthly_payment
        /\ bills[loans[i].bill_id].frequency = "monthly"

\* C16 witness: an update changed the monthly payment of a loan that has a
\* payment recorded; the bill, whose amount and frequency were different
\* before the loan was attached, shows the new amount.
C16_Witness ==
    /\ resp.message = "Loan details updated successfully"
    /\ \E i \in LoanIds :
         /\ loans[i].monthly_payment = 2
         /\ bills[loans[i].bill_id].amount = 2
         /\ loans[i].payment_history # None

\* the sum of the amounts the requests of S paid
RECURSIVE SumPaid(_)
SumPaid(S) ==
    IF S = {} THEN 0
    ELSE LET r == CHOOSE x \in S : TRUE
         IN  sessions[r].paid + SumPaid(S \ {r})

\* C17: when all concurrent payment requests for a loan have been answered,
\* installments_paid is its initial value plus the number of requests
\* answered 200, total_paid its initial value plus the sum of the amounts
\* they paid, and the history has one more record for each of them.
C17_NoLostUpdate ==
    (\A r \in Reqs : sessions[r].pc = "done") =>
        LET ok == { r \in Reqs : sessions[r].status = 200 }
            l  == loans[find_loan(ConcBill)]
        IN  /\ l.installments_paid = ConcLoan.installments_paid + Cardinality(ok)
            /\ l.total_paid = ConcLoan.total_paid + SumPaid(ok)
            /\ Len(History(l)) = Len(History(ConcLoan)) + Cardinality(ok)

\* C18: a create, update or payment request that is answered with an error
\* leaves every loan and every bill as it was, also when the handler had
\* changed fields of the loan or the bill in memory before it failed.
C18_NoPartialWrites ==
    [][ resp'.status \notin {200, 201} => (loans' = loans /\ bills' = bills) ]_vars

\* C18 witness: an update that had set monthly_payment and bill.amount in
\* memory failed on its interest_rate, and the loan and its bill still show
\* the monthly payment of before.
C18_Witness ==
    /\ resp.status = 500
    /\ resp.message = "Failed to update loan details"
    /\ \E i \in LoanIds :
         /\ loans[i].payment_history # None
         /\ loans[i].monthly_payment = 1
         /\ bills[loans[i].bill_id].amount = 1

\* the request is answered like one for a bill that does not exist, and no
\* loan and no bill changes
Denied ==
    /\ resp' = Response(404, "Bill not found", None)
    /\ loans' = loans
    /\ bills' = bills

\* C19: a create, get, update or payment request of a user for a bill of
\* another user is answered 404 "Bill not found" with no loan data, whatever
\* the bill's loan holds, and changes no loan and no bill; a bill the payment
\* flow creates belongs to the user of the paid bill.
C19_OwnBillsOnly ==
    [][ /\ \A u \in Users, b \in 1 .. Len(bills) :
             bills[b].user_id # u =>
                 /\ \A d \in CreateBodies(u, b) :
                        create_loan_details(u, b, d) => Denied
                 /\ get_loan_details(u, b) => Denied
                 /\ \A a \in PaymentBodies(u, b) :
                        record_loan_payment(u, b, a) => Denied
                 /\ \A d \in UpdateBodies(u, b) :
                        update_loan_details(u, b, d) => Denied
        /\ Len(bills') > Len(bills) =>
             \A r \in OwnLoanRequests, a \in PaymentAmounts :
                 PaymentDone(r[1], r[2], a) =>
                     bills'[Len(bills')].user_id = bills[r[2]].user_id ]_vars

\* C19 witness: a request was answered 404 "Bill not found" while the other
\* user's bill has a loan with a payment and a successor bill of that user.
C19_Witness ==
    /\ resp = Response(404, "Bill not found", None)
    /\ \E k \in LoanIds :
         /\ loans[k].payment_history # None
         /\ \E i \in Successors(k) : bills[i].user_id = "u2"

\* the loan rows recompute is applied to: a stored row or the row as it is
\* before the first calculation, with its monthly_payment as stored or as an
\* update can set it
RecomputeInputs(l) ==
    { [ row EXCEPT !.monthly_payment = v ] :
        row \in { l, [ l EXCEPT !.amount_remaining = None,
                                !.expected_completion_date = None,
                                !.next_payment_date = None ] },
        v \in {l.monthly_payment}
              \cup { ToNumber(d.monthly_payment) :
                       d \in { x \in UpdateData : x.monthly_payment.k = "num" } } }

\* C20: calculate_loan_details is idempotent: applied to any loan row a
\* request has left (or to that row with no derived field set yet), a second
\* application changes no field of the result of the first.
C20_RecomputeIdempotent ==
    \A i \in LoanIds :
        \A l \in RecomputeInputs(loans[i]) :
            calculate_loan_details(calculate_loan_details(l)) =
                calculate_loan_details(l)

\* C20 witness: an update has recomputed a loan that had a payment recorded
\* and is still active.
C20_Witness ==
    /\ resp.message = "Loan details updated successfully"
    /\ \E i \in LoanIds :
         /\ loans[i].is_active
         /\ loans[i].installments_paid >= 1
         /\ loans[i].amount_remaining =
                Some(loans[i].total_amount - loans[i].total_paid)

\* C21: a fresh loan of n installments with total_amount = n * monthly_payment
\* has, after k payments of the default amount, installments_paid = k,
\* amount_remaining = (n - k) * monthly_payment, next_payment_date =
\* loan_start_date + (k + 1) months, and is active exactly when k < n; no more
\* than n payments are recorded.
C21_OnSchedule ==
    \A i \in LoanIds :
        LET l == loans[i]
            k == Len(History(l))
            n == l.total_installments
        IN  /\ k <= n
            /\ l.installments_paid = k
            /\ l.amount_remaining = Some((n - k) * l.monthly_payment)
            /\ l.next_payment_date = Some(AddMonths(l.loan_start_date, k + 1))
            /\ l.is_active <=> (k < n)

\* C21 witness: the loan of 12 installments of 100 from 2025-01-01 after 11
\* payments: 100 remaining, active, next payment on 2026-01-01.
C21_Witness ==
    \E i \in LoanIds :
        /\ loans[i].total_amount = 1200
        /\ loans[i].loan_start_date = Date(2025, 1, 1)
        /\ loans[i].installments_paid = 11
        /\ loans[i].amount_remaining = Some(100)
        /\ loans[i].is_active
        /\ loans[i].next_payment_date = Some(Date(2026, 1, 1))

\* the loans of a user's bills that are active
ActiveLoans(u) ==
    { i \in LoanIds : bills[loans[i].bill_id].user_id = u /\ loans[i].is_active }

\* the sum of amount_remaining over the loans of S
RECURSIVE SumRemaining(_)
SumRemaining(S) ==
    IF S = {} THEN 0
    ELSE LET i == CHOOSE x \in S : TRUE
         IN  loans[i].amount_remaining[1] + SumRemaining(S \ {i})

\* the chat call that asks for the loan summary
SummaryCall == [ name |-> "get_loan_summary", bill_id |-> 0, amount |-> Absent ]

\* C22: the loan summary a user asks for, through the chat function
\* get_loan_summary or through GET /loans/summary, is answered with a list of
\* exactly that user's active loans, their number as total_loans and the sum
\* of their amount_remaining as total_debt.
C22_SummaryOfActiveLoans ==
    [][ \A u \in Users :
          /\ send_message(u, SummaryCall) =>
               /\ resp'.status = 200
               /\ LET r == resp'.result[1]
                  IN  /\ r.total_loans = Cardinality(ActiveLoans(u))
                      /\ Len(r.active_loans) = Cardinality(ActiveLoans(u))
                      /\ \A i \in ActiveLoans(u) :
                           \E k \in 1 .. Len(r.active_loans) :
                             /\ r.active_loans[k].bill_name = bills[loans[i].bill_id].name
                             /\ r.active_loans[k].amount_remaining =
                                    loans[i].amount_remaining[1]
                      /\ r.total_debt = SumRemaining(ActiveLoans(u))
          /\ get_loans_summary(u) =>
               /\ resp'.status = 200
               /\ LET r == resp'.result[1]
                  IN  /\ r.total_active_loans = Cardinality(ActiveLoans(u))
                      /\ { r.active_loans[k].bill_id : k \in 1 .. Len(r.active_loans) }
                             = { loans[i].bill_id : i \in ActiveLoans(u) }
                      /\ Len(r.active_loans) = Cardinality(ActiveLoans(u))
                      /\ r.total_debt = SumRemaining(ActiveLoans(u)) ]_vars

\* C23: a chat function call to record a payment with {bill_id, amount?} for a
\* bill of the user whose loan is active is answered with installment_no,
\* amount_paid, amount_remaining and is_completed and changes the loan as the
\* payment route does.
C23_ChatRecordsPayment ==
    [][ \A u \in Users, c \in ChatCalls :
          ( /\ c.name = "record_loan_payment"
            /\ find_bill(u, c.bill_id) # 0
            /\ find_loan(c.bill_id) # 0
            /\ loans[find_loan(c.bill_id)].is_active
            /\ loans[find_loan(c.bill_id)].amount_remaining # None
            /\ loans[find_loan(c.bill_id)].total_installments # 0
            /\ send_message(u, c) )
          => LET id   == find_loan(c.bill_id)
                 paid == make_payment(loans[id], payment_amount(loans[id], c.amount))
             IN  /\ loans' = [ loans EXCEPT ![id] = paid ]
                 /\ bills'[c.bill_id].is_paid
                 /\ resp'.result =
                        Some(payment_result(paid, payment_amount(loans[id], c.amount)))
      ]_vars

\* p is installments_paid / total_installments * 100 of loan l rounded to 2
\* places (in hundredths of a percent) and lies in [0, 100]
ProgressOf(p, l) ==
    /\ l.total_installments # 0 => p = Round2(l.installments_paid, l.total_installments)
    /\ 0 <= p
    /\ p <= 10000

\* C24: every view that reports progress_percentage (GET /bills/<id>/loan,
\* GET /loans/summary, the chat get_loan_summary) reports installments_paid /
\* total_installments * 100 rounded to 2 places, a value in [0, 100], and none
\* fails with a division error when total_installments is 0.
C24_ProgressPercentage ==
    [][ /\ \A u \in Users, b \in ViewBillIds :
             (get_loan_details(u, b) /\ resp'.status = 200) =>
                 ProgressOf(resp'.result[1].progress_percentage,
                            loans[find_loan(b)])
        /\ \A u \in Users :
             (get_loans_summary(u) /\ resp'.status = 200) =>
                 \A k \in 1 .. Len(resp'.result[1].active_loans) :
                     LET e == resp'.result[1].active_loans[k]
                     IN  ProgressOf(e.progress_percentage, loans[find_loan(e.bill_id)])
        /\ \A u \in Users :
             send_message(u, SummaryCall) =>
                 /\ resp'.result # Raised("division by zero")
                 /\ resp'.status = 200 =>
                      \A k \in 1 .. Len(resp'.result[1].active_loans) :
                          LET e == resp'.result[1].active_loans[k]
                          IN  /\ 0 <= e.progress_percentage
                              /\ e.progress_percentage <= 10000 ]_vars

\* C25: a successful payment whose amount is at least the loan's
\* amount_remaining makes the loan inactive in that step, whatever
\* installments_paid is, with installments_paid one more than before and
\* amount_remaining <= 0; an inactive loan's installments_paid never changes
\* again.
C25_EarlyCompletion ==
    [][ /\ resp'.message = "Payment recorded successfully" =>
             \A r \in OwnLoanRequests, a \in PaymentAmounts :
               PaymentDone(r[1], r[2], a) =>
                   LET old == loans[find_loan(r[2])]
                       new == loans'[find_loan(r[2])]
                   IN  ( /\ old.amount_remaining # None
                         /\ payment_amount(old, a) >= old.amount_remaining[1] )
                       => /\ ~new.is_active
                          /\ new.installments_paid = old.installments_paid + 1
                          /\ new.amount_remaining[1] <= 0
                          /\ resp'.result[1].is_completed
        /\ \A i \in LoanIds :
             ~loans[i].is_active =>
                 /\ i <= Len(loans')
                 /\ loans'[i].installments_paid = loans[i].installments_paid ]_vars

\* C25 witness: a fresh loan of 3 installments was completed by one payment
\* of its whole amount, and a later payment request has been rejected:
\* installments_paid is still 1.
C25_Witness ==
    /\ resp.message = "This loan is already completed"
    /\ \E i \in LoanIds :
         /\ ~loans[i].is_active
         /\ loans[i].installments_paid = 1
         /\ loans[i].total_installments = 3
         /\ loans[i].amount_remaining = Some(0)
         /\ History(loans[i])[1].amount = loans[i].total_amount

\* C26: an active loan has installments_paid < total_installments and
\* amount_remaining > 0.
C26_ActiveLoanHasWorkLeft ==
    \A i \in LoanIds :
        loans[i].is_active =>
            /\ loans[i].installments_paid < loans[i].total_installments
            /\ loans[i].amount_remaining # None
            /\ loans[i].amount_remaining[1] > 0

\* C27: total_paid is never negative and no request decreases it.
C27_TotalPaidMonotone ==
    [][ \A i \in 1 .. Len(loans') :
          /\ loans'[i].total_paid >= 0
          /\ i \in LoanIds => loans'[i].total_paid >= loans[i].total_paid ]_vars

\* C28: every stored loan has monthly_payment > 0.
C28_MonthlyPaymentPositive ==
    \A i \in LoanIds : loans[i].monthly_payment > 0

\* C29: the bill a successful payment adds is due one calendar month after the
\* paid bill, has the loan's monthly_payment as amount, is unpaid, carries the
\* paid bill's name, category, frequency and notification flags, and is
\* annotated "EMI #i of N" with i = installments_paid after the payment + 1
\* and N = total_installments.
C29_SuccessorBillFields ==
    [][ resp'.message = "Payment recorded successfully" =>
          \A r \in OwnLoanRequests, a \in PaymentAmounts :
            (PaymentDone(r[1], r[2], a) /\ Len(bills') > Len(bills)) =>
                LET paid == bills[r[2]]
                    loan == loans'[find_loan(r[2])]
                    succ == bills'[Len(bills')]
                IN  /\ Len(bills') = Len(bills) + 1
                    /\ succ.user_id = r[1]
                    /\ succ.due_date = AddMonths(paid.due_date, 1)
                    /\ succ.amount = loan.monthly_payment
                    /\ ~succ.is_paid
                    /\ succ.name = paid.name
                    /\ succ.category = paid.category
                    /\ succ.frequency = paid.frequency
                    /\ succ.flags = paid.flags
                    /\ succ.notes = Some(<<loan.installments_paid + 1,
                                           loan.total_installments>>) ]_vars

\* C29 witness: the first payment of a loan of 3 installments, whose bill was
\* due 2025-01-31, has added the bill "EMI #2 of 3" due 2025-02-28.
C29_Witness ==
    /\ resp.message = "Payment recorded successfully"
    /\ \E i \in GeneratedBills, k \in LoanIds :
         /\ i = Len(bills)
         /\ loans[k].installments_paid = 1
         /\ loans[k].is_active
         /\ bills[i].notes = Some(<<2, 3>>)
         /\ bills[i].due_date = Date(2025, 2, 28)
         /\ bills[i].amount = loans[k].monthly_payment
         /\ ~bills[i].is_paid
         /\ bills[loans[k].bill_id].is_paid

\* the number of successful payments within which an active loan completes
PaymentsLeft(l) ==
    IF l.total_installments - l.installments_paid > 1
    THEN l.total_installments - l.installments_paid
    ELSE 1

\* C30: every loan completes within a bounded number of payments: a successful
\* payment on an active loan completes it or takes one from PaymentsLeft =
\* max(1, total_installments - installments_paid), which stays at least 1 and
\* which no other request changes; an inactive loan records no further
\* payment; and while the payment requests keep coming, an active loan is
\* eventually inactive.
C30_EveryLoanCompletes ==
    /\ [][ \A i \in LoanIds :
            /\ i <= Len(loans')
            /\ loans[i].is_active =>
                  IF resp'.message = "Payment recorded successfully"
                        /\ loans'[i] # loans[i]
                  THEN \/ ~loans'[i].is_active
                       \/ /\ PaymentsLeft(loans'[i]) = PaymentsLeft(loans[i]) - 1
                          /\ PaymentsLeft(loans'[i]) >= 1
                  ELSE PaymentsLeft(loans'[i]) = PaymentsLeft(loans[i])
            /\ ~loans[i].is_active =>
                  /\ ~loans'[i].is_active
                  /\ loans'[i].installments_paid = loans[i].installments_paid
                  /\ loans'[i].total_paid = loans[i].total_paid ]_vars
    /\ \A i \in 1 .. MaxLoans :
          (i \in LoanIds /\ loans[i].is_active)
              ~> (i \in LoanIds /\ ~loans[i].is_active)

\* C30 witness: a loan of 3 installments created with none paid has been
\* completed by its third payment, and the next payment request was rejected.
C30_Witness ==
    /\ resp.message = "This loan is already completed"
    /\ \E i \in LoanIds :
         /\ ~loans[i].is_active
         /\ loans[i].total_installments = 3
         /\ loans[i].installments_paid = 3
         /\ Len(History(loans[i])) = 3
         /\ History(loans[i])[1].installment_no = 1
====
